---- MODULE Spec2Model ----
(***************************************************************************)
(* Model of the numsys radix converter (src/src/lib.rs): switch_dec_base,  *)
(* seq2dec and dec2seq, with the NewError taxonomy.                        *)
(*                                                                         *)
(* A char is its Unicode scalar value, a String / &[char] is a sequence of *)
(* chars (1-indexed here, 0-indexed in the source).  usize is UsizeBits    *)
(* wide.  Arithmetic on usize either aborts on overflow (a build with      *)
(* overflow checks, the default debug profile) or wraps modulo 2^UsizeBits *)
(* (the default release profile): overflow_checks records the build.       *)
(* Strings are limited by host memory only, this limit is not modelled.    *)
(***************************************************************************)
EXTENDS Integers, Sequences, FiniteSets

\* ---------------------------------------------------------------- bounds
UsizeBits == 5
MaxSeqLen == 7
MaxDictLen == 2
MaxBase == 38

UsizeMod == 2 ^ UsizeBits

\* '0', '1' and the three-byte U+2605 (BLACK STAR) of the doc examples
Chars == {48, 49, 9733}

RECURSIVE SeqsUpTo(_, _)
SeqsUpTo(S, n) ==
    IF n = 0 THEN {<< >>}
    ELSE LET shorter == SeqsUpTo(S, n - 1)
         IN  shorter \cup {Append(s, c) : s \in {t \in shorter : Len(t) = n - 1}, c \in S}

\* ------------------------------------------------------ canonical alphabet
DIGITS == [i \in 1..10 |-> 48 + (i - 1)]
UPPER_AZ == [i \in 1..26 |-> 65 + (i - 1)]
DIGITS_UPPER_AZ == DIGITS \o UPPER_AZ
D_UAZ_LEN == Len(DIGITS_UPPER_AZ)

\* ------------------------------------------------------------- outcomes
Ok(v) == [tag |-> "Ok", val |-> v]
BaseTooSmall(base) == [tag |-> "BaseTooSmall", min |-> 2, given |-> base]
BaseTooBig(base) == [tag |-> "BaseTooBig", max |-> D_UAZ_LEN, given |-> base]
DictEmpty == [tag |-> "DictEmpty"]
MultipleChar(elem, dict) == [tag |-> "MultipleChar", elem |-> elem, dict |-> dict]
MissingChar(glyph, dict) == [tag |-> "MissingChar", glyph |-> glyph, dict |-> dict]
Panic(msg) == [tag |-> "Panic", msg |-> msg]
None == [tag |-> "None"]

\* ------------------------------------------------------- usize arithmetic
\* a * b and a + b on usize: the wrapped value and whether it overflowed
UsizeMul(a, b) == [val |-> (a * b) % UsizeMod, ovf |-> a * b >= UsizeMod]
UsizeAdd(a, b) == [val |-> (a + b) % UsizeMod, ovf |-> a + b >= UsizeMod]

\* usize::pow: repeated usize multiplication
RECURSIVE UsizePow(_, _)
UsizePow(b, exp) ==
    IF exp = 0 THEN [val |-> 1, ovf |-> FALSE]
    ELSE LET r == UsizePow(b, exp - 1)
             m == UsizeMul(r.val, b)
         IN  [val |-> m.val, ovf |-> r.ovf \/ m.ovf]

\* ------------------------------------------------------------- strings
Utf8Len(c) == IF c < 128 THEN 1 ELSE IF c < 2048 THEN 2 ELSE IF c < 65536 THEN 3 ELSE 4

\* str::len: the length in bytes of the UTF-8 encoding
RECURSIVE StrLen(_)
StrLen(s) == IF s = << >> THEN 0 ELSE Utf8Len(Head(s)) + StrLen(Tail(s))

StrRepeat_OneMore(s, n) == [i \in 1..(n + 1) * Len(s) |-> s[((i - 1) % Len(s)) + 1]]

\* str::repeat
StrRepeat(s, n) == [i \in 1..n * Len(s) |-> s[((i - 1) % Len(s)) + 1]]

\* --------------------------------------------------------------- dec2seq
RECURSIVE Dec2SeqLoop_ExtraDigit(_, _, _)
Dec2SeqLoop_ExtraDigit(decimal, char2val, sequence) ==
    LET base == Len(char2val)
        next == << char2val[(decimal % base) + 1] >> \o sequence
    IN  IF decimal = 0 THEN next
        ELSE Dec2SeqLoop_ExtraDigit(decimal \div base, char2val, next)

RECURSIVE Dec2SeqLoop(_, _, _)
Dec2SeqLoop(decimal, char2val, sequence) ==
    LET base == Len(char2val)
    IN  IF decimal = 0 THEN sequence
        ELSE Dec2SeqLoop(decimal \div base, char2val,
                         << char2val[(decimal % base) + 1] >> \o sequence)

dec2seq(decimal, char2val) ==
    LET base == Len(char2val)
    IN  IF base = 0 THEN DictEmpty
        ELSE IF base = 1 THEN Ok(StrRepeat(<< char2val[1] >>, decimal))
        ELSE Ok(Dec2SeqLoop(decimal, char2val, << >>))

\* ------------------------------------------------------- switch_dec_base
LowerHexDigit(x) == IF x <= 9 THEN 48 + x ELSE 97 + (x - 10)

\* the digit of {:X}
UpperHexDigit(x) == IF x <= 9 THEN 48 + x ELSE 65 + (x - 10)

\* the digit of {:b}, {:o} and {}
PlainDigit(x) == 48 + x

\* integer formatting: digits from the least significant, at least one
RECURSIVE FmtInt(_, _, _)
FmtInt(x, radix, buf) ==
    LET n == x % radix
        d == IF radix = 16 THEN UpperHexDigit(n) ELSE PlainDigit(n)
        next == << d >> \o buf
    IN  IF x \div radix = 0 THEN next ELSE FmtInt(x \div radix, radix, next)

switch_dec_base_NoZeroCase(decimal, base) ==
    IF base < 2 THEN BaseTooSmall(base)
    ELSE IF base > D_UAZ_LEN THEN BaseTooBig(base)
    ELSE IF base \in {2, 8, 10, 16} THEN Ok(FmtInt(decimal, base, << >>))
    ELSE dec2seq(decimal, SubSeq(DIGITS_UPPER_AZ, 1, base))

switch_dec_base_ZeroFirst(decimal, base) ==
    IF decimal = 0 THEN Ok(<< 48 >>)
    ELSE IF base < 2 THEN BaseTooSmall(base)
    ELSE IF base > D_UAZ_LEN THEN BaseTooBig(base)
    ELSE IF base \in {2, 8, 10, 16} THEN Ok(FmtInt(decimal, base, << >>))
    ELSE dec2seq(decimal, SubSeq(DIGITS_UPPER_AZ, 1, base))

switch_dec_base(decimal, base) ==
    IF base < 2 THEN BaseTooSmall(base)
    ELSE IF base > D_UAZ_LEN THEN BaseTooBig(base)
    ELSE IF decimal = 0 THEN Ok(<< 48 >>)
    ELSE IF base \in {2, 8, 10, 16} THEN Ok(FmtInt(decimal, base, << >>))
    ELSE dec2seq(decimal, SubSeq(DIGITS_UPPER_AZ, 1, base))

\* --------------------------------------------------------------- seq2dec
\* uniques.len() == 1
single_char_sequence(sequence) ==
    Cardinality({sequence[i] : i \in 1..Len(sequence)}) = 1

\* indices (1-based) of the elements whose insert finds the key present
DupIdx(char2val) ==
    {i \in 1..Len(char2val) : \E j \in 1..(i - 1) : char2val[j] = char2val[i]}

BuildChar2Val_NoDupCheck(char2val) ==
    [tag |-> "Map",
     hm |-> [c \in {char2val[i] : i \in 1..Len(char2val)} |->
                (CHOOSE i \in 1..Len(char2val) :
                    /\ char2val[i] = c
                    /\ \A j \in 1..Len(char2val) : char2val[j] = c => j <= i) - 1]]

\* the map char -> position, or MultipleChar at the first repeated element
BuildChar2Val(char2val) ==
    IF DupIdx(char2val) # {}
    THEN LET i == CHOOSE i \in DupIdx(char2val) : \A j \in DupIdx(char2val) : i <= j
         IN  MultipleChar(char2val[i], char2val)
    ELSE [tag |-> "Map",
          hm |-> [c \in {char2val[i] : i \in 1..Len(char2val)} |->
                     (CHOOSE i \in 1..Len(char2val) : char2val[i] = c) - 1]]

\* the accumulation loop over sequence.chars().rev().enumerate(), from idx;
\* idx stays far below 2^32 here, so `idx as u32` keeps its value
RECURSIVE DecodeLoop(_, _, _, _, _, _)
DecodeLoop(sequence, char2val, hm, idx, dec, checks) ==
    IF idx = Len(sequence) THEN Ok(dec)
    ELSE LET glyph == sequence[Len(sequence) - idx]
         IN  IF glyph \notin DOMAIN hm THEN MissingChar(glyph, char2val)
             ELSE LET p == UsizePow(Len(char2val), idx)
                      m == UsizeMul(hm[glyph], p.val)
                      a == UsizeAdd(dec, m.val)
                  IN  IF checks /\ (p.ovf \/ m.ovf)
                      THEN Panic("attempt to multiply with overflow")
                      ELSE IF checks /\ a.ovf
                      THEN Panic("attempt to add with overflow")
                      ELSE DecodeLoop(sequence, char2val, hm, idx + 1, a.val, checks)

seq2dec_NoBypass(sequence, char2val, checks) ==
    LET from_base == Len(char2val)
    IN  IF from_base = 0 THEN DictEmpty
        ELSE LET m == BuildChar2Val(char2val)
             IN  IF m.tag # "Map" THEN m
                 ELSE DecodeLoop(sequence, char2val, m.hm, 0, 0, checks)

seq2dec(sequence, char2val, checks) ==
    LET from_base == Len(char2val)
    IN  IF from_base = 0 THEN DictEmpty
        ELSE IF from_base = 1 /\ single_char_sequence(sequence)
        THEN Ok(StrLen(sequence))
        ELSE LET m == BuildChar2Val(char2val)
             IN  IF m.tag # "Map" THEN m
                 ELSE DecodeLoop(sequence, char2val, m.hm, 0, 0, checks)

\* ----------------------------------------------------------------- state
VARIABLES op, decimal, base, sequence, char2val, overflow_checks, pc, result

vars == << op, decimal, base, sequence, char2val, overflow_checks, pc, result >>

Decimals == 0..(UsizeMod - 1)
Bases == 0..MaxBase
Dicts == SeqsUpTo(Chars, MaxDictLen)
CanonicalDicts == {SubSeq(DIGITS_UPPER_AZ, 1, b) : b \in 0..D_UAZ_LEN}
Seqs == SeqsUpTo(Chars, MaxSeqLen)

Init ==
    /\ pc = "start"
    /\ result = None
    /\ overflow_checks \in BOOLEAN
    /\ op \in {"switch_dec_base", "seq2dec", "dec2seq", "test"}
    /\ \/ /\ op = "switch_dec_base"
          /\ decimal \in Decimals
          /\ base \in Bases
          /\ sequence = << >>
          /\ char2val = << >>
       \/ /\ op = "seq2dec"
          /\ decimal = 0
          /\ base = 0
          /\ sequence \in Seqs
          /\ char2val \in Dicts
       \/ /\ op \in {"dec2seq", "test"}
          /\ decimal \in Decimals
          /\ base = 0
          /\ sequence = << >>
          /\ char2val \in Dicts \cup CanonicalDicts

SwitchDecBase ==
    /\ pc = "start"
    /\ op = "switch_dec_base"
    /\ result' = switch_dec_base(decimal, base)
    /\ pc' = "done"
    /\ UNCHANGED << op, decimal, base, sequence, char2val, overflow_checks >>

Seq2Dec ==
    /\ pc = "start"
    /\ op = "seq2dec"
    /\ result' = seq2dec(sequence, char2val, overflow_checks)
    /\ pc' = "done"
    /\ UNCHANGED << op, decimal, base, sequence, char2val, overflow_checks >>

Dec2Seq ==
    /\ pc = "start"
    /\ op = "dec2seq"
    /\ result' = dec2seq(decimal, char2val)
    /\ pc' = "done"
    /\ UNCHANGED << op, decimal, base, sequence, char2val, overflow_checks >>

\* let seq = dec2seq(number, &dict).expect("First conversion failed");
TestFirstConversion ==
    /\ pc = "start"
    /\ op = "test"
    /\ LET r == dec2seq(decimal, char2val)
       IN  IF r.tag = "Ok"
           THEN /\ sequence' = r.val
                /\ pc' = "converted"
                /\ result' = result
           ELSE /\ sequence' = sequence
                /\ pc' = "done"
                /\ result' = Panic("First conversion failed")
    /\ UNCHANGED << op, decimal, base, char2val, overflow_checks >>

\* seq2dec(seq, &dict)
TestSecondConversion ==
    /\ pc = "converted"
    /\ op = "test"
    /\ result' = seq2dec(sequence, char2val, overflow_checks)
    /\ pc' = "done"
    /\ UNCHANGED << op, decimal, base, sequence, char2val, overflow_checks >>

Next ==
    \/ SwitchDecBase
    \/ Seq2Dec
    \/ Dec2Seq
    \/ TestFirstConversion
    \/ TestSecondConversion

Spec == Init /\ [][Next]_vars

\* ------------------------------------------------- reference notions
Symbols(s) == {s[i] : i \in 1..Len(s)}
DupFree(dict) == \A i, j \in 1..Len(dict) : dict[i] = dict[j] => i = j
OneDistinctSymbol(s) == Len(s) >= 1 /\ \A i \in 1..Len(s) : s[i] = s[1]
DigitValue(c, dict) == (CHOOSE i \in 1..Len(dict) : dict[i] = c) - 1
CanonicalPrefix(b) == [i \in 1..b |-> IF i <= 10 THEN 47 + i ELSE 54 + i]

\* sum over positions i from the right of value_i * base^i (Horner form)
RECURSIVE PositionalValue(_, _)
PositionalValue(s, dict) ==
    IF s = << >> THEN 0
    ELSE PositionalValue(SubSeq(s, 1, Len(s) - 1), dict) * Len(dict)
            + DigitValue(s[Len(s)], dict)

AbsentIdx(s, dict) == {i \in 1..Len(s) : s[i] \notin Symbols(dict)}
RightmostAbsent(s, dict) ==
    CHOOSE i \in AbsentIdx(s, dict) : \A j \in AbsentIdx(s, dict) : j <= i
\* the symbols right of the rightmost absent one do not fit the integer width
SuffixOverflows(s, dict) ==
    LET k == RightmostAbsent(s, dict)
        n == Len(s) - k
    IN  /\ n >= 1
        /\ \/ Len(dict) ^ (n - 1) >= UsizeMod
           \/ PositionalValue(SubSeq(s, k + 1, Len(s)), dict) >= UsizeMod

Seq2DecDone == op = "seq2dec" /\ pc = "done"
Dec2SeqDone == op = "dec2seq" /\ pc = "done"
SwitchDone == op = "switch_dec_base" /\ pc = "done"
TestDone == op = "test" /\ pc = "done"

\* ---------------------------------------------------------------- claims

\* C1: for every non-empty alphabet of pairwise distinct symbols and every
\* decimal d, seq2dec(dec2seq(d, alphabet), alphabet) returns Ok(d).
C1_RoundTrip ==
    (TestDone /\ Len(char2val) >= 1 /\ DupFree(char2val)) => result = Ok(decimal)

\* C2: for decimal > 0 and base in {2, 8, 10, 16} the formatting paths of
\* switch_dec_base return what dec2seq returns on the first `base` canonical
\* symbols.
C2_FastPathsMatchGeneralPath ==
    (SwitchDone /\ decimal > 0 /\ base \in {2, 8, 10, 16})
        => result = dec2seq(decimal, CanonicalPrefix(base))

C2_Witness ==
    SwitchDone /\ decimal = 31 /\ base = 16 /\ result = Ok(<< 49, 70 >>)

\* C3: switch_dec_base fails with BaseTooSmall (minimum 2, the given base)
\* exactly when base < 2, with BaseTooBig (maximum 36, the given base)
\* exactly when base > 36, and returns Ok exactly for base in 2..36,
\* whatever the decimal.
C3_OutcomeDecidedByBase ==
    SwitchDone =>
        /\ (base < 2) <=> (result.tag = "BaseTooSmall")
        /\ (base < 2) => (result.min = 2 /\ result.given = base)
        /\ (base > 36) <=> (result.tag = "BaseTooBig")
        /\ (base > 36) => (result.max = 36 /\ result.given = base)
        /\ (base \in 2..36) <=> (result.tag = "Ok")

C3_Witness ==
    SwitchDone /\ decimal = 0 /\ base = 37 /\ result.tag = "BaseTooBig"

\* C4: switch_dec_base(0, base) returns Ok("0") for every base in 2..36,
\* while dec2seq(0, alphabet) with at least two symbols returns the empty
\* sequence.
C4_ZeroIsSingleZeroSymbol ==
    /\ (SwitchDone /\ decimal = 0 /\ base \in 2..36) => result = Ok(<< 48 >>)
    /\ (Dec2SeqDone /\ decimal = 0 /\ Len(char2val) >= 2) => result = Ok(<< >>)

C4_Witness ==
    SwitchDone /\ decimal = 0 /\ base = 7 /\ result = Ok(<< 48 >>)

C6_DuplicateDetectedFirst ==
    (Seq2DecDone /\ ~DupFree(char2val))
        => /\ result.tag = "MultipleChar"
           /\ \E i, j \in 1..Len(char2val) :
                 i # j /\ char2val[i] = result.elem /\ char2val[j] = result.elem
           /\ result.dict = char2val

C6_Witness ==
    /\ Seq2DecDone
    /\ char2val = << 48, 48 >>
    /\ sequence = << 49, 9733 >>
    /\ result.tag = "MultipleChar"

\* C7: with a one-symbol alphabet and a sequence of n >= 1 repetitions of
\* one symbol, seq2dec returns Ok(n), n counted in symbols.
C7_UnaryBypassCountsSymbols ==
    (Seq2DecDone /\ Len(char2val) = 1 /\ OneDistinctSymbol(sequence))
        => result = Ok(Len(sequence))

\* C8: dec2seq(d, [s]) returns Ok of s repeated exactly d times (the empty
\* sequence for d = 0).
C8_UnaryExpansion ==
    (Dec2SeqDone /\ Len(char2val) = 1)
        => /\ result.tag = "Ok"
           /\ Len(result.val) = decimal
           /\ \A i \in 1..Len(result.val) : result.val[i] = char2val[1]

C8_Witness ==
    /\ Dec2SeqDone
    /\ char2val = << 9733 >>
    /\ decimal = 10
    /\ Len(result.val) = 10

\* C9: for base in 2..36 and decimal > 0 the sequence returned by
\* switch_dec_base, and by dec2seq on the first `base` canonical symbols,
\* is non-empty and does not start with '0'.
C9_NoLeadingZero ==
    /\ (SwitchDone /\ decimal > 0 /\ base \in 2..36)
          => (result.tag = "Ok" /\ Len(result.val) >= 1 /\ result.val[1] # 48)
    /\ (Dec2SeqDone /\ decimal > 0 /\ Len(char2val) \in 2..36
          /\ char2val = CanonicalPrefix(Len(char2val)))
          => (result.tag = "Ok" /\ Len(result.val) >= 1 /\ result.val[1] # 48)

C9_Witness ==
    /\ Dec2SeqDone
    /\ char2val = << 48, 49, 50 >>
    /\ decimal = 9
    /\ result = Ok(<< 49, 48, 48 >>)

\* C10: for every duplicate-free alphabet of at least two symbols and every
\* sequence of alphabet symbols whose positional value fits the integer
\* width, seq2dec returns Ok of that value, leading zero-value symbols
\* included.
C10_FittingValueIsDecoded ==
    (Seq2DecDone /\ Len(char2val) >= 2 /\ DupFree(char2val)
        /\ AbsentIdx(sequence, char2val) = {}
        /\ PositionalValue(sequence, char2val) < UsizeMod)
        => result = Ok(PositionalValue(sequence, char2val))
====
